---- MODULE Spec2Model ----
(***************************************************************************)
(* State-machine model of src/net/infiniband.c (gPXE Infiniband core):     *)
(* completion queues, queue pairs and their work queues, posting and       *)
(* completion, receive refill, port open/close and multicast membership.   *)
(*                                                                         *)
(* The device-specific operations (ibdev->op->...), the management         *)
(* interface (ib_create_mi / ib_destroy_mi) and the management agent       *)
(* (ib_create_sma / ib_destroy_sma) live outside infiniband.c; their       *)
(* definitions here carry the prefix Hw / Mi / Sma and follow the          *)
(* interface the core relies on.                                           *)
(***************************************************************************)
EXTENDS Integers, Sequences, FiniteSets, TLC

(* ------------------------------ bounds -------------------------------- *)
\* completion queues that exist on the device at one time
MaxCqs == 2
\* queue pairs ever created on the device
MaxQps == 2
\* largest work queue capacity (num_send_wqes / num_recv_wqes)
MaxWqes == 2
\* I/O buffers ever allocated
MaxIobs == 2
\* largest hardware queue pair number
MaxQpn == 3
\* pieces of storage a management interface can be allocated in
MaxMis == 3
\* largest number of simultaneous holders of an open port
MaxOpens == 3
\* multicast membership records held by one queue pair
MaxMgids == 2
\* entries one poll of the hardware reports as finished
MaxPoll == 1
\* Infiniband devices that have been allocated
MaxDevs == 2

(* ------------------------- program constants -------------------------- *)
IB_QPN_SMI == 0
IB_QPN_GSI == 1
\* a null pointer; identifiers of objects start at 1
NULL == 0
\* the value an unsigned counter takes when it is decremented at 0; TLC's
\* integers are 32 bits wide and signed, so UINT_MAX itself is not a value
\* of the model: the largest value TLC has stands for it, and like UINT_MAX
\* it is above every capacity and every count of the model
UIntWrap == (2^30 - 1) + 2^30

CqIds == 1..MaxCqs
QpIds == 1..MaxQps
IobIds == 1..MaxIobs
MiIds == 1..MaxMis
DevIds == 1..MaxDevs
QpTypes == {"IB_QPT_SMI", "IB_QPT_GSI", "IB_QPT_UD"}
Gids == {"gidA", "gidB"}
Oks == {"OK"}
HwErrs == {"-EIO"}

VARIABLES
  cqs,        \* ibdev->cqs: list of completion queues, head first
  cq,         \* struct ib_completion_queue, by identifier
  qps,        \* ibdev->qps: list of queue pairs, head first
  qp,         \* struct ib_queue_pair (with its two work queues), by identifier
  iob,        \* struct io_buffer, by identifier: who owns it
  open_count, \* ibdev->open_count
  smi,        \* ibdev->smi (pointer, possibly to a destroyed interface)
  gsi,        \* ibdev->gsi
  mis,        \* the management interfaces that exist (created, not destroyed)
  sma,        \* the interface the management agent is bound to, or NULL
  hw_open,    \* the port is open at the hardware (op->open done, op->close not)
  holders,    \* callers whose ib_open returned 0 and who have not called ib_close
  run,        \* history: calls since the port was last closed
  last,       \* history: the last call of the core, its result and what it called
  mhist,      \* history: per queue pair, how far an attach / detach / detach
              \* sequence on one group has got
  hw_prev,    \* history: the last call of op->open or op->close, whatever it
              \* returned
  ib_devices, \* the list of registered devices, head first
  refcnt,     \* per device, ibdev_get() less ibdev_put() calls of the registry
  registered  \* history: the devices whose register_ibdev() succeeded and
              \* that unregister_ibdev() has not been called for

vars == <<cqs, cq, qps, qp, iob, open_count, smi, gsi, mis, sma, hw_open,
          holders, run, last, mhist, hw_prev, ib_devices, refcnt, registered>>

qvars == <<cqs, cq, qps, qp, iob>>
pvars == <<open_count, smi, gsi, mis, sma, hw_open, holders, run, hw_prev>>
dvars == <<ib_devices, refcnt, registered>>

(* ------------------------------ lists --------------------------------- *)
\* list_add ( new, head ): insert at the head of the list
list_add(new, list) == <<new>> \o list

\* list_add_tail ( new, head )
list_add_tail(new, list) == Append(list, new)

RECURSIVE list_del(_, _)
\* list_del ( entry ): unlink the entry from the list that holds it
list_del(entry, list) ==
  IF list = <<>> THEN <<>>
  ELSE IF Head(list) = entry THEN Tail(list)
  ELSE <<Head(list)>> \o list_del(entry, Tail(list))

list_empty(list) == list = <<>>

Range(s) == {s[i] : i \in 1..Len(s)}

Min(S) == CHOOSE x \in S : \A y \in S : x <= y

(* --------------------------- initial state ---------------------------- *)
\* a work queue of a zalloc()ed queue pair
NoWq == [cq |-> NULL, is_send |-> FALSE, num_wqes |-> 0, fill |-> 0,
         iobufs |-> <<>>]

\* storage that holds no queue pair
NoQp == [st |-> "none", type |-> "none", qpn |-> NULL, ext_qpn |-> NULL,
         send |-> NoWq, recv |-> NoWq, mgids |-> <<>>]

\* storage that holds no completion queue. The completion queues of every
\* device are kept in cqs; ibdev is the device that owns the queue
NoCq == [st |-> "none", ibdev |-> NULL, complete_send |-> FALSE,
         complete_recv |-> FALSE, work_queues |-> <<>>]

\* a buffer: st is "wq" from the post that accepted it to its completion,
\* and wq is then the work queue that holds it; "caller" while the caller of
\* a post or ib_refill_recv() holds it; "none" when the storage is unused
\* (never allocated, freed, or taken over by a completion handler, which
\* disposes of it outside the core). small: its tailroom is below
\* IB_MAX_PAYLOAD_SIZE
NoIob == [st |-> "none", small |-> FALSE, wq |-> <<>>]

\* the calls since the last ib_open() on a closed port: how many ib_open()
\* and ib_close(), how many op->open and op->close they made, and whether
\* they were all ib_open() ("opening"), ib_open() and then ib_close() only
\* ("closing", and "done" when there were as many of each), or mixed
NoRun == [opens |-> 0, closes |-> 0, hw_opens |-> 0, hw_closes |-> 0,
          shape |-> "none"]

\* no sequence under way; phase 1: a group was attached to an empty
\* collection; 2: and detached by the next call; 3: and detached again
NoMhist == [gid |-> "none", phase |-> 0]

\* alloc_ibdev(): zalloc() and two empty lists
Init ==
  /\ cqs = <<>>
  /\ cq = [c \in CqIds |-> NoCq]
  /\ qps = <<>>
  /\ qp = [q \in QpIds |-> NoQp]
  /\ iob = [b \in IobIds |-> NoIob]
  /\ open_count = 0
  /\ smi = NULL
  /\ gsi = NULL
  /\ mis = {}
  /\ sma = NULL
  /\ hw_open = FALSE
  /\ holders = 0
  /\ run = NoRun
  /\ last = [op |-> "none"]
  /\ mhist = [q \in QpIds |-> NoMhist]
  /\ hw_prev = "none"
  /\ ib_devices = <<>>
  /\ refcnt = [d \in DevIds |-> 0]
  /\ registered = {}

Live(q) == qp[q].st = "live"
LiveCq(c) == cq[c].st = "live"

\* the storage the next allocation returns; the identifier of a queue pair
\* is never reused, so that a destroyed pair and a later one are told apart
FreshCq == IF \E c \in CqIds : cq[c].st = "none"
           THEN Min({c \in CqIds : cq[c].st = "none"}) ELSE NULL
FreshQp == IF \E q \in QpIds : qp[q].st = "none"
           THEN Min({q \in QpIds : qp[q].st = "none"}) ELSE NULL

(* ------------------------ completion queues --------------------------- *)
\* ib_create_cq(): the queue is linked into ibdev->cqs before the hardware
\* is asked; a hardware failure unlinks and frees it again
ib_create_cq(ibdev, has_send, has_recv, alloc_ok, hw_rc) ==
  LET c == FreshCq IN
  /\ \/ ~alloc_ok
     \/ c # NULL
  /\ IF ~alloc_ok
     THEN /\ UNCHANGED <<cqs, cq>>
          /\ last' = [op |-> "ib_create_cq", ret |-> NULL, ev |-> <<>>,
                      cqs0 |-> cqs]
     ELSE IF hw_rc # "OK"
     THEN /\ cqs' = list_del(c, list_add(c, cqs))
          /\ cq' = cq
          /\ last' = [op |-> "ib_create_cq", ret |-> NULL,
                      ev |-> <<<<"op_create_cq", c, hw_rc>>, <<"free", c>>>>,
                      cqs0 |-> cqs]
     ELSE /\ cqs' = list_add(c, cqs)
          /\ cq' = [cq EXCEPT ![c] = [st |-> "live", ibdev |-> ibdev,
                                      complete_send |-> has_send,
                                      complete_recv |-> has_recv,
                                      work_queues |-> <<>>]]
          /\ last' = [op |-> "ib_create_cq", ret |-> c,
                      ev |-> <<<<"op_create_cq", c, hw_rc>>>>, cqs0 |-> cqs]
  /\ UNCHANGED <<qps, qp, iob, pvars, mhist, dvars>>

\* ib_destroy_cq(): asserts that no work queue is attached
ib_destroy_cq(c) ==
  /\ LiveCq(c)
  /\ list_empty(cq[c].work_queues)
  /\ cqs' = list_del(c, cqs)
  /\ cq' = [cq EXCEPT ![c] = NoCq]
  /\ last' = [op |-> "ib_destroy_cq", c |-> c,
              ev |-> <<<<"op_destroy_cq", c>>, <<"free", c>>>>]
  /\ UNCHANGED <<qps, qp, iob, pvars, mhist, dvars>>

(* --------------------------- completions ------------------------------ *)
\* The operations below run inside one call of the core. They work on a
\* record S of what the call has changed so far: S.qp and S.iob are the
\* queue pairs and the buffers, S.ev the calls it has made, in order, and
\* S.rc the status the last operation returned; S.qps and S.cq are the list
\* of queue pairs and the completion queues.
Begin == [qp |-> qp, iob |-> iob, qps |-> qps, cq |-> cq, ev |-> <<>>,
          rc |-> "OK"]

Ev(S, e) == [S EXCEPT !.ev = Append(@, e)]

\* qp->send.fill++ / qp->recv.fill++
FillInc(fill) == fill + 1

\* a completion that forgets the decrement
FillDecSkipped(fill) == fill

\* qp->send.fill-- / qp->recv.fill-- on an unsigned counter
FillDec(fill) == IF fill = 0 THEN UIntWrap ELSE fill - 1

\* free_iob(); the call is recorded with the owner the buffer had
free_iob(S, b) ==
  [Ev(S, <<"free_iob", b, S.iob[b].st>>) EXCEPT !.iob[b] = NoIob]

RECURSIVE FindQpn(_, _)
FindQpn(list, qpn) ==
  IF list = <<>> THEN NULL
  ELSE IF qpn = qp[Head(list)].qpn \/ qpn = qp[Head(list)].ext_qpn
       THEN Head(list)
       ELSE FindQpn(Tail(list), qpn)

\* ib_find_qp_qpn(): the first pair of ibdev->qps with that internal or
\* external number
ib_find_qp_qpn(qpn) == FindQpn(qps, qpn)

\* what a completion finds: the owner of the buffer, and whether the queue
\* pair is on the device's list and its work queues on their completion
\* queues' lists
CompleteAt(S, q, b) ==
  [owner |-> S.iob[b],
   linked |-> /\ q \in Range(S.qps)
              /\ <<q, TRUE>> \in Range(S.cq[S.qp[q].send.cq].work_queues)
              /\ <<q, FALSE>> \in Range(S.cq[S.qp[q].recv.cq].work_queues),
   found |-> FindQpn(S.qps, S.qp[q].qpn) = q]

\* a completion handler of the completion queue takes the buffer over
OpComplete(S, e, b) == [Ev(S, e) EXCEPT !.iob[b] = NoIob]

\* ib_complete_send(): hand the buffer to the completion queue's handler if
\* there is one, free it otherwise; then one entry less is outstanding. The
\* call itself is the first thing recorded
ib_complete_send(S, q, b, rc) ==
  LET c == S.qp[q].send.cq
      S0 == Ev(S, <<"ib_complete_send", q, b, rc, CompleteAt(S, q, b)>>)
      S1 == IF S.cq[c].complete_send
            THEN OpComplete(S0, <<"op_complete_send", q, b, rc>>, b)
            ELSE free_iob(S0, b)
  IN [S1 EXCEPT !.qp[q].send.fill = FillDec(@)]

\* a completion that frees the buffer it has handed to the handler
ib_complete_recvBoth(S, q, b, rc) ==
  LET c == S.qp[q].recv.cq
      S0 == Ev(S, <<"ib_complete_recv", q, b, rc, CompleteAt(S, q, b)>>)
      S1 == IF S.cq[c].complete_recv
            THEN free_iob(OpComplete(S0, <<"op_complete_recv", q, b, rc>>, b), b)
            ELSE free_iob(S0, b)
  IN [S1 EXCEPT !.qp[q].recv.fill = FillDec(@)]

\* ib_complete_recv()
ib_complete_recv(S, q, b, rc) ==
  LET c == S.qp[q].recv.cq
      S0 == Ev(S, <<"ib_complete_recv", q, b, rc, CompleteAt(S, q, b)>>)
      S1 == IF S.cq[c].complete_recv
            THEN OpComplete(S0, <<"op_complete_recv", q, b, rc>>, b)
            ELSE free_iob(S0, b)
  IN [S1 EXCEPT !.qp[q].recv.fill = FillDec(@)]

(* ---------------------------- queue pairs ----------------------------- *)
\* the queue pair numbers the hardware may give a new pair of this type: one
\* that no live pair has; the two reserved numbers go to the privileged
\* types only
HwQpnChoices(type) ==
  (((IB_QPN_GSI + 1)..MaxQpn)
     \cup (IF type = "IB_QPT_SMI" THEN {IB_QPN_SMI} ELSE {})
     \cup (IF type = "IB_QPT_GSI" THEN {IB_QPN_GSI} ELSE {}))
  \ {qp[q].qpn : q \in {x \in QpIds : Live(x)}}

\* a queue pair whose external number is left as the hardware's
ExtQpnSame(type, qpn) == qpn

\* ib_create_qp(): "Calculate externally-visible QPN"
ExtQpn(type, qpn) ==
  CASE type = "IB_QPT_SMI" -> IB_QPN_SMI
    [] type = "IB_QPT_GSI" -> IB_QPN_GSI
    [] OTHER -> qpn

\* the work queue of a new pair: fill 0 and every slot empty (zalloc)
NewWq(c, is_send, num_wqes) ==
  [cq |-> c, is_send |-> is_send, num_wqes |-> num_wqes, fill |-> 0,
   iobufs |-> [i \in 1..num_wqes |-> NULL]]

\* a creation that forgets to attach the receive queue
CreateQpLinkWqsSendOnly(C, q, send_cq, recv_cq) ==
  [C EXCEPT ![send_cq].work_queues = list_add(<<q, TRUE>>, @)]

\* list_add ( &qp->send.list, &send_cq->work_queues ), then the same for
\* the receive queue
CreateQpLinkWqs(C, q, send_cq, recv_cq) ==
  LET C1 == [C EXCEPT ![send_cq].work_queues = list_add(<<q, TRUE>>, @)]
  IN [C1 EXCEPT ![recv_cq].work_queues = list_add(<<q, FALSE>>, @)]

\* an unwinding that leaves the receive queue attached
UnlinkWqsSendOnly(C, q, send_cq, recv_cq) ==
  [C EXCEPT ![send_cq].work_queues = list_del(<<q, TRUE>>, @)]

\* list_del ( &qp->send.list ); list_del ( &qp->recv.list )
UnlinkWqs(C, q, send_cq, recv_cq) ==
  LET C1 == [C EXCEPT ![send_cq].work_queues = list_del(<<q, TRUE>>, @)]
  IN [C1 EXCEPT ![recv_cq].work_queues = list_del(<<q, FALSE>>, @)]

\* a destruction that leaves the pair on the device's list
DestroyQpUnlinkSkipped(q, list) == list

\* list_del ( &qp->list ) in ib_destroy_qp()
DestroyQpUnlink(q, list) == list_del(q, list)

\* ib_create_qp()
ib_create_qp(type, num_send_wqes, send_cq, num_recv_wqes, recv_cq, alloc_ok, hw_rc, hw_qpn) ==
  LET q == FreshQp
      before == [qps |-> qps, wqs |-> [c \in CqIds |-> cq[c].work_queues]]
  IN
  /\ LiveCq(send_cq) /\ LiveCq(recv_cq)
  /\ \/ ~alloc_ok
     \/ q # NULL
  /\ IF ~alloc_ok
     THEN /\ UNCHANGED <<qps, qp, cq>>
          /\ last' = [op |-> "ib_create_qp", ret |-> NULL, ev |-> <<>>,
                      before |-> before]
     ELSE IF hw_rc # "OK"
     THEN /\ qps' = list_del(q, list_add(q, qps))
          /\ cq' = UnlinkWqs(CreateQpLinkWqs(cq, q, send_cq, recv_cq),
                             q, send_cq, recv_cq)
          /\ qp' = qp
          /\ last' = [op |-> "ib_create_qp", ret |-> NULL,
                      ev |-> <<<<"op_create_qp", q, hw_rc>>, <<"free", q>>>>,
                      before |-> before]
     ELSE /\ qps' = list_add(q, qps)
          /\ cq' = CreateQpLinkWqs(cq, q, send_cq, recv_cq)
          /\ qp' = [qp EXCEPT ![q] =
                      [st |-> "live", type |-> type, qpn |-> hw_qpn,
                       ext_qpn |-> ExtQpn(type, hw_qpn),
                       send |-> NewWq(send_cq, TRUE, num_send_wqes),
                       recv |-> NewWq(recv_cq, FALSE, num_recv_wqes),
                       mgids |-> <<>>]]
          /\ last' = [op |-> "ib_create_qp", ret |-> q,
                      ev |-> <<<<"op_create_qp", q, hw_rc>>>>,
                      before |-> before]
  /\ UNCHANGED <<cqs, iob, pvars, mhist, dvars>>

\* a loop that stops one slot short
DestroySendSlotsShort(w) == 1..(w.num_wqes - 1)

\* ib_destroy_qp(): the slots of the send queue it walks, for
\* ( i = 0 ; i < qp->send.num_wqes ; i++ ), counted from 1 here
DestroySendSlots(w) == 1..w.num_wqes

\* for ( i = 0 ; i < qp->recv.num_wqes ; i++ )
DestroyRecvSlots(w) == 1..w.num_wqes

RECURSIVE CancelSend(_, _, _)
\* "Complete any remaining I/O buffers with errors", send queue, from slot i
CancelSend(S, q, i) ==
  IF i \notin DestroySendSlots(S.qp[q].send) THEN S
  ELSE LET b == S.qp[q].send.iobufs[i]
       IN CancelSend(IF b # NULL
                     THEN ib_complete_send(S, q, b, "-ECANCELED") ELSE S,
                     q, i + 1)

RECURSIVE CancelRecv(_, _, _)
\* the same for the receive queue
CancelRecv(S, q, i) ==
  IF i \notin DestroyRecvSlots(S.qp[q].recv) THEN S
  ELSE LET b == S.qp[q].recv.iobufs[i]
       IN CancelRecv(IF b # NULL
                     THEN ib_complete_recv(S, q, b, "-ECANCELED") ELSE S,
                     q, i + 1)

\* the buffers a work queue holds: accepted by a post of that queue and not
\* yet completed
HeldBy(I, q, is_send) ==
  {b \in IobIds : I[b].st = "wq" /\ I[b].wq = <<q, is_send>>}

\* a destruction that takes the work queues off their completion queues
\* before it completes the buffers they hold
DestroyQpStepsUnlinkFirst(S, q) ==
  LET S0 == Ev(S, <<"op_destroy_qp", q>>)
      S1 == [Ev(Ev(S0, <<"list_del_send", q>>), <<"list_del_recv", q>>)
               EXCEPT !.cq = UnlinkWqs(@, q, S.qp[q].send.cq, S.qp[q].recv.cq)]
      S2 == CancelSend(S1, q, 1)
      S3 == CancelRecv(S2, q, 1)
      S4 == [Ev(S3, <<"list_del_qp", q>>) EXCEPT !.qps = DestroyQpUnlink(q, @)]
  IN Ev(S4, <<"free", q>>)

\* the steps of ib_destroy_qp() after its assertion, in order: the hardware
\* destroys the pair, the buffers left in the send queue and then those
\* left in the receive queue are completed, the work queues leave their
\* completion queues, the pair leaves the device's list and is freed
DestroyQpSteps(S, q) ==
  LET S0 == Ev(S, <<"op_destroy_qp", q>>)
      S1 == CancelSend(S0, q, 1)
      S2 == CancelRecv(S1, q, 1)
      S3 == [Ev(Ev(S2, <<"list_del_send", q>>), <<"list_del_recv", q>>)
               EXCEPT !.cq = UnlinkWqs(@, q, S.qp[q].send.cq, S.qp[q].recv.cq)]
      S4 == [Ev(S3, <<"list_del_qp", q>>) EXCEPT !.qps = DestroyQpUnlink(q, @)]
  IN Ev(S4, <<"free", q>>)

\* ib_destroy_qp(): asserts that no multicast membership is left
ib_destroy_qp(q) ==
  LET S3 == DestroyQpSteps(Begin, q)
  IN
  /\ Live(q)
  /\ list_empty(qp[q].mgids)
  /\ cq' = S3.cq
  /\ qps' = S3.qps
  /\ qp' = [S3.qp EXCEPT ![q] = [NoQp EXCEPT !.st = "freed"]]
  /\ iob' = S3.iob
  /\ last' = [op |-> "ib_destroy_qp", q |-> q, ev |-> S3.ev,
              send0 |-> HeldBy(iob, q, TRUE),
              recv0 |-> HeldBy(iob, q, FALSE),
              send_fill0 |-> qp[q].send.fill,
              recv_fill0 |-> qp[q].recv.fill,
              send_fill |-> S3.qp[q].send.fill,
              recv_fill |-> S3.qp[q].recv.fill,
              qpn |-> qp[q].qpn, ext_qpn |-> qp[q].ext_qpn,
              found0 |-> qps]
  /\ UNCHANGED <<cqs, pvars, mhist, dvars>>

(* ------------------------- posting buffers ---------------------------- *)
\* "Check queue fill level" of ib_post_send()
SendFull(w) == w.fill >= w.num_wqes

\* a fill level check that lets a queue at capacity through
RecvFullLate(w) == w.fill > w.num_wqes

\* "Check queue fill level" of ib_post_recv()
RecvFull(w) == w.fill >= w.num_wqes

\* "Check packet length": iob_tailroom ( iobuf ) < IB_MAX_PAYLOAD_SIZE
TailroomTooSmall(S, b) == S.iob[b].small

\* the slot the hardware puts the next buffer in: the first empty one
HwFreeSlot(w) ==
  IF \E i \in DOMAIN w.iobufs : w.iobufs[i] = NULL
  THEN Min({i \in DOMAIN w.iobufs : w.iobufs[i] = NULL}) ELSE NULL

\* the status of op->post_send / op->post_recv: the hardware may refuse any
\* post, and refuses one that finds no empty slot
HwPostRc(w, hw_rc) == IF HwFreeSlot(w) = NULL THEN "-ENOBUFS" ELSE hw_rc

\* op->post_send / op->post_recv accepting a buffer: it occupies a slot
HwPost(w, b) == [w EXCEPT !.iobufs[HwFreeSlot(w)] = b]

\* ib_post_send()
ib_post_send(S, q, b, hw_rc) ==
  LET w == S.qp[q].send IN
  IF SendFull(w) THEN [S EXCEPT !.rc = "-ENOBUFS"]
  ELSE LET rc == HwPostRc(w, hw_rc)
           S1 == Ev(S, <<"op_post_send", q, b, rc>>)
       IN IF rc # "OK" THEN [S1 EXCEPT !.rc = rc]
          ELSE [S1 EXCEPT !.qp[q].send =
                            [HwPost(w, b) EXCEPT !.fill = FillInc(@)],
                          !.iob[b].st = "wq",
                          !.iob[b].wq = <<q, TRUE>>,
                          !.rc = "OK"]

\* ib_post_recv()
ib_post_recv(S, q, b, hw_rc) ==
  LET w == S.qp[q].recv IN
  IF TailroomTooSmall(S, b) THEN [S EXCEPT !.rc = "-EINVAL"]
  ELSE IF RecvFull(w) THEN [S EXCEPT !.rc = "-ENOBUFS"]
  ELSE LET rc == HwPostRc(w, hw_rc)
           S1 == Ev(S, <<"op_post_recv", q, b, rc>>)
       IN IF rc # "OK" THEN [S1 EXCEPT !.rc = rc]
          ELSE [S1 EXCEPT !.qp[q].recv =
                            [HwPost(w, b) EXCEPT !.fill = FillInc(@)],
                          !.iob[b].st = "wq",
                          !.iob[b].wq = <<q, FALSE>>,
                          !.rc = "OK"]

\* alloc_iob(): the next unused buffer, or NULL when there is none left
FreshIob(S) ==
  IF \E b \in IobIds : S.iob[b].st = "none"
  THEN Min({b \in IobIds : S.iob[b].st = "none"}) ELSE NULL

\* the buffer a caller passes to a post: one it has just allocated
CallerIobs == {FreshIob(Begin)} \ {NULL}

\* the caller's buffer, with the tailroom the caller gave it
WithIob(S, b, small) ==
  [S EXCEPT !.iob[b] = [st |-> "caller", small |-> small, wq |-> <<>>]]

\* what the caller of a post does with a buffer the post did not accept
CallerDrops(S, b) == IF S.iob[b].st = "caller" THEN free_iob(S, b) ELSE S

PostSend(q, b, hw_rc) ==
  /\ Live(q)
  /\ b \in CallerIobs
  /\ \E S \in {ib_post_send(WithIob(Begin, b, FALSE), q, b, hw_rc)} :
       /\ qp' = S.qp
       /\ iob' = CallerDrops(S, b).iob
       /\ last' = [op |-> "ib_post_send", q |-> q, b |-> b, rc |-> S.rc,
                   ev |-> S.ev, full0 |-> (qp[q].send.fill = qp[q].send.num_wqes),
                   small |-> FALSE,
                   fill0 |-> qp[q].send.fill, fill1 |-> S.qp[q].send.fill]
       /\ UNCHANGED <<cqs, cq, qps, pvars, mhist, dvars>>

PostRecv(q, b, small, hw_rc) ==
  /\ Live(q)
  /\ b \in CallerIobs
  /\ \E S \in {ib_post_recv(WithIob(Begin, b, small), q, b, hw_rc)} :
       /\ qp' = S.qp
       /\ iob' = CallerDrops(S, b).iob
       /\ last' = [op |-> "ib_post_recv", q |-> q, b |-> b, rc |-> S.rc,
                   ev |-> S.ev, full0 |-> (qp[q].recv.fill = qp[q].recv.num_wqes),
                   small |-> small,
                   fill0 |-> qp[q].recv.fill, fill1 |-> S.qp[q].recv.fill]
       /\ UNCHANGED <<cqs, cq, qps, pvars, mhist, dvars>>

(* ------------------------------ refill -------------------------------- *)
\* a refill loop that stops one entry short of the capacity
RefillMoreShort(w) == w.fill + 1 < w.num_wqes

\* while ( qp->recv.fill < qp->recv.num_wqes )
RefillMore(w) == w.fill < w.num_wqes

\* what alloc_iob() and op->post_recv do during one refill: the first o.ok
\* iterations succeed and the next one fails as o.fail says
RefillOutcomes(need) ==
  {[ok |-> j, fail |-> f] : j \in 0..(need - 1), f \in {"alloc", "post"}}
    \cup {[ok |-> need, fail |-> "none"]}

\* a loop body that goes on to the next pass when the post has failed
RefillBodyGoOn(S, q, fail) ==
  LET b == FreshIob(S) IN
  IF b = NULL \/ fail = "alloc"
  THEN [S |-> Ev(S, <<"alloc_iob", NULL>>), returned |-> TRUE]
  ELSE LET S1 == [Ev(S, <<"alloc_iob", b>>)
                    EXCEPT !.iob[b] = [st |-> "caller", small |-> FALSE,
                                       wq |-> <<>>]]
           S2 == ib_post_recv(S1, q, b, IF fail = "post" THEN "-EIO" ELSE "OK")
       IN IF S2.rc # "OK" THEN [S |-> free_iob(S2, b), returned |-> FALSE]
          ELSE [S |-> S2, returned |-> FALSE]

\* one pass of the body of the loop of ib_refill_recv(): allocate a buffer
\* and post it; fail names what fails in this pass, if anything. returned:
\* the pass ended in a return statement
RefillBody(S, q, fail) ==
  LET b == FreshIob(S) IN
  IF b = NULL \/ fail = "alloc"
  THEN [S |-> Ev(S, <<"alloc_iob", NULL>>), returned |-> TRUE]
  ELSE LET S1 == [Ev(S, <<"alloc_iob", b>>)
                    EXCEPT !.iob[b] = [st |-> "caller", small |-> FALSE,
                                       wq |-> <<>>]]
           S2 == ib_post_recv(S1, q, b, IF fail = "post" THEN "-EIO" ELSE "OK")
       IN IF S2.rc # "OK" THEN [S |-> free_iob(S2, b), returned |-> TRUE]
          ELSE [S |-> S2, returned |-> FALSE]

RECURSIVE ib_refill_recv(_, _, _)
\* ib_refill_recv()
ib_refill_recv(S, q, o) ==
  IF ~RefillMore(S.qp[q].recv) THEN S
  ELSE LET r == RefillBody(S, q, IF o.ok = 0 THEN o.fail ELSE "none")
       IN IF r.returned THEN r.S
          ELSE ib_refill_recv(r.S, q, [o EXCEPT !.ok = @ - 1])

\* the entries a refill of this queue would post if nothing failed
RefillNeed(w) == IF w.fill < w.num_wqes THEN w.num_wqes - w.fill ELSE 0

RefillRecv(q, o) ==
  /\ Live(q)
  /\ \E S \in {ib_refill_recv(Begin, q, o)} :
       /\ qp' = S.qp
       /\ iob' = S.iob
       /\ last' = [op |-> "ib_refill_recv", q |-> q, ev |-> S.ev,
                   fill0 |-> qp[q].recv.fill, fill1 |-> S.qp[q].recv.fill,
                   num_wqes |-> qp[q].recv.num_wqes]
       /\ UNCHANGED <<cqs, cq, qps, pvars, mhist, dvars>>

(* ------------------------------ polling ------------------------------- *)
\* the entries of the work queues attached to a completion queue that the
\* hardware holds: <<queue pair, is_send, slot>>
CqOutstanding(c) ==
  {e \in QpIds \X BOOLEAN \X (1..MaxWqes) :
     /\ <<e[1], e[2]>> \in Range(cq[c].work_queues)
     /\ LET w == IF e[2] THEN qp[e[1]].send ELSE qp[e[1]].recv
        IN e[3] \in DOMAIN w.iobufs /\ w.iobufs[e[3]] # NULL}

\* the order in which one poll reports the entries it has finished: by
\* queue pair, send queue first, then by slot
Earlier(e, f) ==
  \/ e[1] < f[1]
  \/ e[1] = f[1] /\ e[2] /\ ~f[2]
  \/ e[1] = f[1] /\ e[2] = f[2] /\ e[3] < f[3]

RECURSIVE InOrder(_)
InOrder(E) ==
  IF E = {} THEN <<>>
  ELSE LET x == CHOOSE e \in E : \A f \in E \ {e} : Earlier(e, f)
       IN <<x>> \o InOrder(E \ {x})

\* what one op->poll_cq may report: any of the outstanding entries, up to
\* MaxPoll of them
Arrangements(E) == {InOrder(D) : D \in {X \in SUBSET E : Cardinality(X) <= MaxPoll}}

RECURSIVE HwPollCq(_, _, _)
\* op->poll_cq: for each entry the hardware has finished, in the order it
\* reports them, the driver empties the slot and calls ib_complete_send()
\* or ib_complete_recv() with the status of the entry
HwPollCq(S, done, status) ==
  IF done = <<>> THEN S
  ELSE LET q == Head(done)[1]
           is_send == Head(done)[2]
           i == Head(done)[3]
       IN IF is_send
          THEN HwPollCq(ib_complete_send(
                          [S EXCEPT !.qp[q].send.iobufs[i] = NULL],
                          q, S.qp[q].send.iobufs[i], status),
                        Tail(done), status)
          ELSE HwPollCq(ib_complete_recv(
                          [S EXCEPT !.qp[q].recv.iobufs[i] = NULL],
                          q, S.qp[q].recv.iobufs[i], status),
                        Tail(done), status)

RECURSIVE PollRefillAll(_, _, _)
\* a pass that refills at every entry of the list, send queues included
PollRefillAll(S, wqs, orc) ==
  IF wqs = <<>> THEN S
  ELSE PollRefillAll(ib_refill_recv(Ev(S, <<"ib_refill_recv", Head(wqs)[1]>>),
                                    Head(wqs)[1], Head(orc)),
                     Tail(wqs), Tail(orc))

RECURSIVE PollRefill(_, _, _)
\* "Refill receive work queues": list_for_each_entry over cq->work_queues,
\* ib_refill_recv() for each entry that is not a send queue
PollRefill(S, wqs, orc) ==
  IF wqs = <<>> THEN S
  ELSE LET q == Head(wqs)[1]
           is_send == Head(wqs)[2]
       IN PollRefill(IF ~is_send
                     THEN ib_refill_recv(Ev(S, <<"ib_refill_recv", q>>), q,
                                         Head(orc))
                     ELSE S,
                     Tail(wqs), Tail(orc))

\* ib_poll_cq()
ib_poll_cq(S, c, done, status, orc) ==
  PollRefill(HwPollCq(Ev(S, <<"op_poll_cq", c>>), done, status),
             cq[c].work_queues, orc)

\* the refill outcomes for a pass over the work queues of a completion queue
RECURSIVE PollOracles(_, _)
PollOracles(S, wqs) ==
  IF wqs = <<>> THEN {<<>>}
  ELSE LET need == IF Head(wqs)[2] THEN 0
                   ELSE RefillNeed(S.qp[Head(wqs)[1]].recv)
       IN {<<o>> \o rest : o \in RefillOutcomes(need),
                           rest \in PollOracles(S, Tail(wqs))}

PollCq(c, done, status, orc) ==
  /\ LiveCq(c)
  /\ \E S \in {ib_poll_cq(Begin, c, done, status, orc)} :
       /\ qp' = S.qp
       /\ iob' = S.iob
       /\ last' = [op |-> "ib_poll_cq", c |-> c, ev |-> S.ev]
       /\ UNCHANGED <<cqs, cq, qps, pvars, mhist, dvars>>

(* --------------------------- specifications --------------------------- *)
Rcs == Oks \cup HwErrs

\* how a create call ends: the allocation fails, the hardware refuses, or
\* the object is created
Ends == {"alloc", "hw", "ok"}
AllocOk(end) == end # "alloc"
HwRc(end) == IF end = "hw" THEN "-EIO" ELSE "OK"
\* the arguments that make a difference to a call that ends this way
Given(end, args) == IF end = "ok" THEN args ELSE {CHOOSE a \in args : TRUE}

\* one completion queue, with both completion handlers or with none, for
\* the work queues of a pair to share
CreateCq ==
  \E end \in Ends : \E has_op \in Given(end, BOOLEAN) :
    /\ FreshCq \in {NULL, Min(CqIds)}
    /\ ib_create_cq(Min(DevIds), has_op, has_op, AllocOk(end), HwRc(end))

\* one completion queue without completion handlers, for the specifications
\* in which the completion queues only have to exist
CreateCqOne ==
  \E end \in Ends :
    /\ FreshCq \in {NULL, Min(CqIds)}
    /\ ib_create_cq(Min(DevIds), FALSE, FALSE, AllocOk(end), HwRc(end))

DestroyCq == \E c \in CqIds : ib_destroy_cq(c)

\* queue pairs of any type and number, for the lookups by number
CreateQpTyped ==
  \E end \in Ends, send_cq, recv_cq \in CqIds :
    \E type \in Given(end, QpTypes) :
      \E hw_qpn \in Given(end, HwQpnChoices(type)) :
        /\ HwQpnChoices(type) # {}
        /\ ib_create_qp(type, 1, send_cq, 1, recv_cq, AllocOk(end), HwRc(end),
                        hw_qpn)

\* a queue pair of any capacity, for posting and completion; the work queue
\* specification follows one queue pair through its life
CreateQpSized ==
  \E end \in Ends, send_cq, recv_cq \in CqIds :
    \E num_send_wqes, num_recv_wqes \in Given(end, {1, MaxWqes}) :
      /\ FreshQp = Min(QpIds)
      /\ HwQpnChoices("IB_QPT_UD") # {}
      /\ ib_create_qp("IB_QPT_UD", num_send_wqes, send_cq, num_recv_wqes,
                      recv_cq, AllocOk(end), HwRc(end),
                      Min(HwQpnChoices("IB_QPT_UD")))

DestroyQp == \E q \in QpIds : ib_destroy_qp(q)

PostSendAny ==
  \E q \in QpIds, b \in CallerIobs, hw_rc \in Rcs : PostSend(q, b, hw_rc)

PostRecvAny ==
  \E q \in QpIds, b \in CallerIobs, small \in BOOLEAN, hw_rc \in Rcs :
    PostRecv(q, b, small, hw_rc)

RefillRecvAny ==
  \E q \in QpIds :
    /\ Live(q)
    /\ \E o \in RefillOutcomes(RefillNeed(qp[q].recv)) : RefillRecv(q, o)

PollCqAny ==
  \E c \in CqIds :
    /\ LiveCq(c)
    /\ \E done \in Arrangements(CqOutstanding(c)), status \in Oks :
         \E orc \in PollOracles(HwPollCq(Begin, done, status),
                                cq[c].work_queues) :
           PollCq(c, done, status, orc)

\* work queues: posting, completion, refill, destruction
NextWq ==
  \/ CreateCq
  \/ CreateQpSized
  \/ DestroyQp
  \/ PostSendAny
  \/ PostRecvAny
  \/ RefillRecvAny
  \/ PollCqAny

SpecWq == Init /\ [][NextWq]_vars

\* queue pair numbers: creation, destruction, lookup
NextQpn ==
  \/ CreateCqOne
  \/ DestroyCq
  \/ CreateQpTyped
  \/ DestroyQp

SpecQpn == Init /\ [][NextQpn]_vars

(* --------------------------- port open/close -------------------------- *)
\* The operations of one ib_open() or ib_close() work on a record P of the
\* port: its fields, the calls made so far (P.ev) and the status (P.rc).
BeginPort == [open_count |-> open_count, smi |-> smi, gsi |-> gsi, mis |-> mis,
              sma |-> sma, hw_open |-> hw_open, hw_prev |-> hw_prev,
              ev |-> <<>>, rc |-> "OK"]

\* what decides a claim about the port: everything but the open count
PortRest(P) == [smi |-> P.smi, gsi |-> P.gsi, mis |-> P.mis, sma |-> P.sma,
                hw_open |-> P.hw_open]

\* ib_create_mi(): a new management interface in the storage the allocator
\* hands out, or NULL
MiCreate(P, type, ok, at) ==
  LET mi == IF ok /\ at \notin P.mis THEN at ELSE NULL
  IN [ret |-> mi,
      P |-> [Ev(P, <<"ib_create_mi", type, mi>>)
               EXCEPT !.mis = IF mi = NULL THEN @ ELSE @ \cup {mi}]]

\* ib_destroy_mi()
MiDestroy(P, mi) ==
  [Ev(P, <<"ib_destroy_mi", mi>>) EXCEPT !.mis = @ \ {mi}]

\* ib_create_sma(): bind the management agent to the interface
SmaCreate(P, mi, rc) ==
  [Ev(P, <<"ib_create_sma", mi, rc>>)
     EXCEPT !.sma = IF rc = "OK" THEN mi ELSE @, !.rc = rc]

\* ib_destroy_sma()
SmaDestroy(P, mi) == [Ev(P, <<"ib_destroy_sma", mi>>) EXCEPT !.sma = NULL]

\* ibdev->op->open
HwOpen(P, rc) ==
  [Ev(P, <<"op_open", rc>>)
     EXCEPT !.hw_open = IF rc = "OK" THEN TRUE ELSE @, !.rc = rc,
            !.hw_prev = "open"]

\* ibdev->op->close
HwClose(P) ==
  [Ev(P, <<"op_close">>) EXCEPT !.hw_open = FALSE, !.hw_prev = "close"]

\* the labels of ib_open()'s error path, in the order they are laid out
ErrLabels == <<"err_open", "err_create_gsi", "err_create_sma", "err_create_smi">>

\* an error path that leaves the management agent in place
ErrStepKeepSma(P, label) ==
  CASE label = "err_open" -> MiDestroy(P, P.gsi)
    [] label = "err_create_gsi" -> P
    [] label = "err_create_sma" -> MiDestroy(P, P.smi)
    [] label = "err_create_smi" -> [P EXCEPT !.open_count = 0]

\* an error path that leaves the open count as the failed call raised it
ErrStepKeepCount(P, label) ==
  CASE label = "err_open" -> MiDestroy(P, P.gsi)
    [] label = "err_create_gsi" -> SmaDestroy(P, P.smi)
    [] label = "err_create_sma" -> MiDestroy(P, P.smi)
    [] label = "err_create_smi" -> P

\* the statements that follow one label, up to the next label
ErrStep(P, label) ==
  CASE label = "err_open" -> MiDestroy(P, P.gsi)
    [] label = "err_create_gsi" -> SmaDestroy(P, P.smi)
    [] label = "err_create_sma" -> MiDestroy(P, P.smi)
    [] label = "err_create_smi" -> [P EXCEPT !.open_count = 0]

RECURSIVE ErrFrom(_, _)
\* goto ErrLabels[i]: run from that label to the return at the end
ErrFrom(P, i) ==
  IF i > Len(ErrLabels) THEN P ELSE ErrFrom(ErrStep(P, ErrLabels[i]), i + 1)

ErrGoto(P, label, rc) ==
  ErrFrom([P EXCEPT !.rc = rc],
          CHOOSE i \in 1..Len(ErrLabels) : ErrLabels[i] = label)

\* "Device was already open; do nothing": ibdev->open_count++ > 0
AlreadyOpen(count) == count > 0

\* ib_open(); fail names the step that fails, if any, and at the storage
\* the allocator has for the two interfaces
ib_open(P, fail, at) ==
  LET P0 == [P EXCEPT !.open_count = @ + 1] IN
  IF AlreadyOpen(P.open_count) THEN [P0 EXCEPT !.rc = "OK"]
  ELSE
  LET m1 == MiCreate(P0, "IB_QPT_SMI", fail # "smi", at[1])
      P1 == [m1.P EXCEPT !.smi = m1.ret]
  IN IF P1.smi = NULL THEN ErrGoto(P1, "err_create_smi", "-ENOMEM")
  ELSE
  LET P2 == SmaCreate(P1, P1.smi, IF fail = "sma" THEN "-EIO" ELSE "OK")
  IN IF P2.rc # "OK" THEN ErrGoto(P2, "err_create_sma", P2.rc)
  ELSE
  LET m3 == MiCreate(P2, "IB_QPT_GSI", fail # "gsi", at[2])
      P3 == [m3.P EXCEPT !.gsi = m3.ret]
  IN IF P3.gsi = NULL THEN ErrGoto(P3, "err_create_gsi", "-ENOMEM")
  ELSE
  LET P4 == HwOpen(P3, IF fail = "hw" THEN "-EIO" ELSE "OK")
  IN IF P4.rc # "OK" THEN ErrGoto(P4, "err_open", P4.rc)
  ELSE P4

\* a close that tears the port down while one holder is left
LastCloseEarly(count) == count = 1

\* "Close device if this was the last remaining requested opening"
LastClose(count) == count = 0

\* a close that destroys the subnet management interface before the
\* agent bound to it
ib_closeSmiFirst(P) ==
  LET P0 == [P EXCEPT !.open_count = @ - 1] IN
  IF LastClose(P0.open_count)
  THEN HwClose(SmaDestroy(MiDestroy(MiDestroy(P0, P0.gsi), P0.smi), P0.smi))
  ELSE P0

\* a close that tears the port down without closing the hardware
ib_closeNoHw(P) ==
  LET P0 == [P EXCEPT !.open_count = @ - 1] IN
  IF LastClose(P0.open_count)
  THEN MiDestroy(SmaDestroy(MiDestroy(P0, P0.gsi), P0.smi), P0.smi)
  ELSE P0

\* ib_close()
ib_close(P) ==
  LET P0 == [P EXCEPT !.open_count = @ - 1] IN
  IF LastClose(P0.open_count)
  THEN HwClose(MiDestroy(SmaDestroy(MiDestroy(P0, P0.gsi), P0.smi), P0.smi))
  ELSE P0

\* the calls since the last ib_open() on a closed port are neither all
\* ib_open() nor ib_open() and then ib_close() only: they are not counted
Mixed == [NoRun EXCEPT !.shape = "mixed"]

\* the calls of op in a list of calls
Count(ev, op) == Cardinality({i \in 1..Len(ev) : ev[i][1] = op})

SetPort(P) ==
  /\ open_count' = P.open_count
  /\ smi' = P.smi
  /\ gsi' = P.gsi
  /\ mis' = P.mis
  /\ sma' = P.sma
  /\ hw_open' = P.hw_open
  /\ hw_prev' = P.hw_prev

Open(fail, at) ==
  /\ holders < MaxOpens
  /\ \E P \in {ib_open(BeginPort, fail, at)} :
       /\ SetPort(P)
       /\ holders' = IF P.rc = "OK" THEN holders + 1 ELSE holders
       /\ run' = IF open_count = 0
                 THEN [opens |-> 1, closes |-> 0,
                       hw_opens |-> Count(P.ev, "op_open"),
                       hw_closes |-> Count(P.ev, "op_close"),
                       shape |-> "opening"]
                 ELSE IF run.shape # "opening" THEN Mixed
                 ELSE [run EXCEPT !.opens = @ + 1,
                                  !.hw_opens = @ + Count(P.ev, "op_open"),
                                  !.hw_closes = @ + Count(P.ev, "op_close")]
       /\ last' = [op |-> "ib_open", rc |-> P.rc, ev |-> P.ev, fail |-> fail,
                   count0 |-> open_count, rest0 |-> PortRest(BeginPort),
                   hw_prev0 |-> hw_prev, holders0 |-> holders]
  /\ UNCHANGED <<qvars, mhist, dvars>>

\* a caller closes the port it has opened
Close ==
  /\ holders > 0
  /\ \E P \in {ib_close(BeginPort)} :
       /\ SetPort(P)
       /\ holders' = holders - 1
       /\ run' = IF run.shape \notin {"opening", "closing"} THEN Mixed
                 ELSE [run EXCEPT !.closes = @ + 1,
                                  !.hw_opens = @ + Count(P.ev, "op_open"),
                                  !.hw_closes = @ + Count(P.ev, "op_close"),
                                  !.shape = IF run.closes + 1 = run.opens
                                            THEN "done" ELSE "closing"]
       /\ last' = [op |-> "ib_close", ev |-> P.ev, count0 |-> open_count,
                   rest0 |-> PortRest(BeginPort),
                   hw_prev0 |-> hw_prev, holders0 |-> holders]
  /\ UNCHANGED <<qvars, mhist, dvars>>

OpenFails == {"none", "smi", "sma", "gsi", "hw"}

\* the allocator hands out two different pieces of unused storage
MiPlaces == {at \in (MiIds \ mis) \X (MiIds \ mis) : at[1] # at[2]}

OpenAny ==
  \E fail \in IF AlreadyOpen(open_count) THEN {"none"} ELSE OpenFails :
    \E at \in IF AlreadyOpen(open_count) THEN {<<NULL, NULL>>} ELSE MiPlaces :
      Open(fail, at)

NextPort ==
  \/ OpenAny
  \/ Close

SpecPort == Init /\ [][NextPort]_vars

(* ----------------------------- multicast ------------------------------ *)
\* list_add ( &mgid->list, &qp->mgids )
McastLink(gid, mgids) == list_add(gid, mgids)

RECURSIVE FindMgid(_, _)
FindMgid(list, gid) ==
  IF list = <<>> THEN NULL
  ELSE IF gid \in Range(qp[Head(list)].mgids) THEN Head(list)
       ELSE FindMgid(Tail(list), gid)

\* ib_find_qp_mgid(): the first pair of ibdev->qps with a record of the group
ib_find_qp_mgid(gid) == FindMgid(qps, gid)

\* an attach that leaves its record on the list when the hardware refuses
ib_mcast_attachKeep(S, q, gid, alloc_ok, hw_rc) ==
  IF ~alloc_ok THEN [S EXCEPT !.rc = "-ENOMEM"]
  ELSE LET S1 == [S EXCEPT !.qp[q].mgids = McastLink(gid, @)]
           S2 == Ev(S1, <<"op_mcast_attach", q, gid, hw_rc>>)
       IN IF hw_rc # "OK"
          THEN [Ev(S2, <<"free_mgid", gid>>) EXCEPT !.rc = hw_rc]
          ELSE [S2 EXCEPT !.rc = "OK"]

\* ib_mcast_attach()
ib_mcast_attach(S, q, gid, alloc_ok, hw_rc) ==
  IF ~alloc_ok THEN [S EXCEPT !.rc = "-ENOMEM"]
  ELSE LET S1 == [S EXCEPT !.qp[q].mgids = McastLink(gid, @)]
           S2 == Ev(S1, <<"op_mcast_attach", q, gid, hw_rc>>)
       IN IF hw_rc # "OK"
          THEN [Ev(S2, <<"free_mgid", gid>>)
                  EXCEPT !.qp[q].mgids = Tail(@), !.rc = hw_rc]
          ELSE [S2 EXCEPT !.rc = "OK"]

\* a detach that leaves the record on the list
McastUnlinkSkipped(gid, mgids) == mgids

\* "Remove from software multicast GID list": the first record of the group
McastUnlink(gid, mgids) == list_del(gid, mgids)

\* ib_mcast_detach()
ib_mcast_detach(S, q, gid) ==
  LET S1 == Ev(S, <<"op_mcast_detach", q, gid>>)
  IN IF gid \in Range(S1.qp[q].mgids)
     THEN [Ev(S1, <<"free_mgid", gid>>)
             EXCEPT !.qp[q].mgids = McastUnlink(gid, @)]
     ELSE S1

McastAttach(q, gid, alloc_ok, hw_rc) ==
  /\ Live(q)
  /\ Len(qp[q].mgids) < MaxMgids
  /\ \E S \in {ib_mcast_attach(Begin, q, gid, alloc_ok, hw_rc)} :
       /\ qp' = S.qp
       /\ mhist' = [mhist EXCEPT ![q] =
                      IF S.rc = "OK" /\ qp[q].mgids = <<>>
                      THEN [gid |-> gid, phase |-> 1] ELSE NoMhist]
       /\ last' = [op |-> "ib_mcast_attach", q |-> q, gid |-> gid,
                   rc |-> S.rc, ev |-> S.ev, mgids0 |-> qp[q].mgids,
                   found0 |-> ib_find_qp_mgid(gid)]
  /\ UNCHANGED <<cqs, cq, qps, iob, pvars, dvars>>

McastDetach(q, gid) ==
  /\ Live(q)
  /\ \E S \in {ib_mcast_detach(Begin, q, gid)} :
       /\ qp' = S.qp
       /\ mhist' = [mhist EXCEPT ![q] =
                      IF @.phase \in {1, 2} /\ @.gid = gid
                      THEN [@ EXCEPT !.phase = @ + 1] ELSE NoMhist]
       /\ last' = [op |-> "ib_mcast_detach", q |-> q, gid |-> gid,
                   ev |-> S.ev, mgids0 |-> qp[q].mgids]
  /\ UNCHANGED <<cqs, cq, qps, iob, pvars, dvars>>

\* a queue pair with one entry in each work queue, for the memberships
CreateQpPlain ==
  \E end \in Ends, send_cq, recv_cq \in CqIds :
    /\ HwQpnChoices("IB_QPT_UD") # {}
    /\ ib_create_qp("IB_QPT_UD", 1, send_cq, 1, recv_cq, AllocOk(end),
                    HwRc(end), Min(HwQpnChoices("IB_QPT_UD")))

McastAttachAny ==
  \E q \in QpIds, gid \in Gids, end \in Ends :
    McastAttach(q, gid, AllocOk(end), HwRc(end))

McastDetachAny == \E q \in QpIds, gid \in Gids : McastDetach(q, gid)

NextMcast ==
  \/ CreateCqOne
  \/ CreateQpPlain
  \/ DestroyQp
  \/ McastAttachAny
  \/ McastDetachAny

SpecMcast == Init /\ [][NextMcast]_vars

(* ------------------- completion queues and queue pairs ---------------- *)
\* a completion queue without completion handlers, in any free storage
CreateCqPlain ==
  \E end \in Ends :
    ib_create_cq(Min(DevIds), FALSE, FALSE, AllocOk(end), HwRc(end))

\* creation and destruction of completion queues and of queue pairs that
\* name any two of them
NextCq ==
  \/ CreateCqPlain
  \/ DestroyCq
  \/ CreateQpPlain
  \/ DestroyQp

SpecCq == Init /\ [][NextCq]_vars

\* polling: one completion queue that serves the work queues of several
\* queue pairs, whose receive queues the polls keep filled
NextPoll ==
  \/ CreateCq
  \/ CreateQpPlain
  \/ DestroyQp
  \/ PollCqAny

SpecPoll == Init /\ [][NextPoll]_vars

(* ------------------------ devices and event queues -------------------- *)
\* ibdev->cqs: the completion queues of the device, in list order
ibdev_cqs(d) == SelectSeq(cqs, LAMBDA c : cq[c].ibdev = d)

\* what one poll of a completion queue may meet: the completions the
\* hardware reports and the outcomes of the refills
PollsOf(c) ==
  UNION {{[done |-> done, status |-> status, orc |-> orc] :
            orc \in PollOracles(HwPollCq(Begin, done, status),
                                cq[c].work_queues)} :
           done \in Arrangements(CqOutstanding(c)), status \in Oks}

\* the same for every live completion queue
PollChoices ==
  LET C == {c \in CqIds : LiveCq(c)}
  IN {f \in [C -> UNION {PollsOf(c) : c \in C}] : \A c \in C : f[c] \in PollsOf(c)}

RECURSIVE PollCqs(_, _, _)
\* list_for_each_entry ( cq, &ibdev->cqs, list ) ib_poll_cq ( ibdev, cq )
PollCqs(S, list, polls) ==
  IF list = <<>> THEN S
  ELSE PollCqs(ib_poll_cq(S, Head(list), polls[Head(list)].done,
                          polls[Head(list)].status, polls[Head(list)].orc),
               Tail(list), polls)

\* an event queue poll that polls the completion queues of every device
ib_poll_eqAllCqs(S, d, polls) == PollCqs(Ev(S, <<"op_poll_eq", d>>), cqs, polls)

\* ib_poll_eq(): ibdev->op->poll_eq, then every completion queue of ibdev
ib_poll_eq(S, d, polls) ==
  PollCqs(Ev(S, <<"op_poll_eq", d>>), ibdev_cqs(d), polls)

RECURSIVE for_each_ibdev(_, _, _)
\* for_each_ibdev ( ibdev ) ib_poll_eq ( ibdev )
for_each_ibdev(S, list, polls) ==
  IF list = <<>> THEN S
  ELSE for_each_ibdev(ib_poll_eq(S, Head(list), polls), Tail(list), polls)

\* ib_step()
ib_step(S, polls) == for_each_ibdev(S, ib_devices, polls)

Step ==
  \E polls \in PollChoices :
    \E S \in {ib_step(Begin, polls)} :
      /\ qp' = S.qp
      /\ iob' = S.iob
      /\ last' = [op |-> "ib_step", ev |-> S.ev]
      /\ UNCHANGED <<cqs, cq, qps, pvars, mhist, dvars>>

ibdev_get(refs, d) == [refs EXCEPT ![d] = @ + 1]
ibdev_put(refs, d) == [refs EXCEPT ![d] = @ - 1]

\* register_ibdev() of a device that is not on the list: the device is on
\* the list while ipoib_probe() runs, and is taken off again if it fails
register_ibdev(d, probe_rc) ==
  /\ d \notin Range(ib_devices)
  /\ LET refs == ibdev_get(refcnt, d)
         devs == list_add_tail(d, ib_devices)
     IN IF probe_rc # "OK"
        THEN /\ ib_devices' = list_del(d, devs)
             /\ refcnt' = ibdev_put(refs, d)
             /\ registered' = registered
        ELSE /\ ib_devices' = devs
             /\ refcnt' = refs
             /\ registered' = registered \cup {d}
  /\ last' = [op |-> "register_ibdev", d |-> d, rc |-> probe_rc,
              ev |-> <<<<"ipoib_probe", d, probe_rc>>>>]
  /\ UNCHANGED <<qvars, pvars, mhist>>

\* unregister_ibdev() of a registered device
unregister_ibdev(d) ==
  /\ d \in registered
  /\ ib_devices' = list_del(d, ib_devices)
  /\ refcnt' = ibdev_put(refcnt, d)
  /\ registered' = registered \ {d}
  /\ last' = [op |-> "unregister_ibdev", d |-> d,
              ev |-> <<<<"ipoib_remove", d>>>>]
  /\ UNCHANGED <<qvars, pvars, mhist>>

RegisterAny == \E d \in DevIds, probe_rc \in Rcs : register_ibdev(d, probe_rc)

UnregisterAny == \E d \in DevIds : unregister_ibdev(d)

\* a completion queue on any device, registered or not
CreateCqOn ==
  \E d \in DevIds, end \in Ends :
    ib_create_cq(d, FALSE, FALSE, AllocOk(end), HwRc(end))

\* the event queue process: devices come and go, with their completion
\* queues, between the steps of the process
NextStep ==
  \/ RegisterAny
  \/ UnregisterAny
  \/ CreateCqOn
  \/ DestroyCq
  \/ Step

SpecStep == Init /\ [][NextStep]_vars

(* ----------------------- the refill loop, pass by pass ----------------- *)
\* ib_refill_recv() is under way: last is the call, last.pc its position,
\* "while" before a test of the loop condition, "return" once it has returned
Refilling == last.op = "ib_refill_recv" /\ last.pc = "while"

\* ib_refill_recv() is entered
RefillEnter(q) ==
  /\ ~Refilling
  /\ Live(q)
  /\ last' = [op |-> "ib_refill_recv", q |-> q, pc |-> "while", ev |-> <<>>,
              fill0 |-> qp[q].recv.fill, num_wqes |-> qp[q].recv.num_wqes]
  /\ UNCHANGED <<qvars, pvars, mhist, dvars>>

\* one test of the loop condition and, if it holds, one pass of the body
RefillPass(fail) ==
  /\ Refilling
  /\ IF ~RefillMore(qp[last.q].recv)
     THEN /\ last' = [last EXCEPT !.pc = "return"]
          /\ UNCHANGED <<qp, iob>>
     ELSE \E r \in {RefillBody([Begin EXCEPT !.ev = last.ev], last.q, fail)} :
            /\ qp' = r.S.qp
            /\ iob' = r.S.iob
            /\ last' = [last EXCEPT !.ev = r.S.ev,
                                    !.pc = IF r.returned THEN "return"
                                           ELSE "while"]
  /\ UNCHANGED <<cqs, cq, qps, pvars, mhist, dvars>>

RefillEnterAny == \E q \in QpIds : RefillEnter(q)

RefillPassAny == \E fail \in {"none", "alloc", "post"} : RefillPass(fail)

\* a receive queue is created, refilled pass by pass with any outcome of
\* each allocation and post, and emptied by polls between the refills
NextRefill ==
  \/ ~Refilling /\ CreateCq
  \/ ~Refilling /\ CreateQpSized
  \/ ~Refilling /\ PollCqAny
  \/ RefillEnterAny
  \/ RefillPassAny

\* the processor goes on executing the loop it is in
SpecRefill == Init /\ [][NextRefill]_vars /\ WF_vars(RefillPassAny)

(* ------------------------- work queue lookup -------------------------- *)
\* wq->is_send, an int: 1 in the send queue of a pair (qp->send.is_send = 1)
\* and 0, as zalloc() left it, in its receive queue
WqIsSend(w) == IF w[2] THEN 1 ELSE 0

\* the values a caller passes as the int is_send: zero, one, and another
\* value that is not zero
IsSendArgs == {0, 1, 2}

RECURSIVE FindWq(_, _, _)
\* list_for_each_entry ( wq, &cq->work_queues, list ): the first entry with
\* wq->qp->qpn == qpn and wq->is_send == is_send; <<>> stands for the NULL
\* the function returns when there is none
FindWq(list, qpn, is_send) ==
  IF list = <<>> THEN <<>>
  ELSE IF qp[Head(list)[1]].qpn = qpn /\ WqIsSend(Head(list)) = is_send
       THEN Head(list)
       ELSE FindWq(Tail(list), qpn, is_send)

\* ib_find_wq()
ib_find_wq(c, qpn, is_send) ==
  /\ LiveCq(c)
  /\ last' = [op |-> "ib_find_wq", c |-> c, qpn |-> qpn, is_send |-> is_send,
              ret |-> FindWq(cq[c].work_queues, qpn, is_send), ev |-> <<>>]
  /\ UNCHANGED <<qvars, pvars, mhist, dvars>>

FindWqAny ==
  \E c \in CqIds, qpn \in 0..MaxQpn, is_send \in IsSendArgs :
    ib_find_wq(c, qpn, is_send)

\* queue pairs that use one completion queue for both of their work
\* queues: creation, lookup of the work queues, polling, destruction
NextSame ==
  \/ CreateCq
  \/ DestroyCq
  \/ CreateQpPlain
  \/ DestroyQp
  \/ PollCqAny
  \/ FindWqAny

SpecSame == Init /\ [][NextSame]_vars

(* ------------------------------ properties ---------------------------- *)
\* the calls of op on queue pair q in a list of calls
CallsOf(ev, op, q) == SelectSeq(ev, LAMBDA e : e[1] = op /\ e[2] = q)

\* the posts of op on queue pair q that the hardware accepted
PostsOk(ev, op, q) == Len(SelectSeq(CallsOf(ev, op, q), LAMBDA e : e[4] = "OK"))

\* the position of the first call e in a list of calls, 0 if there is none
IndexOf(ev, e) ==
  IF \E i \in 1..Len(ev) : ev[i] = e
  THEN Min({i \in 1..Len(ev) : ev[i] = e}) ELSE 0

\* every fill count is within the capacity and counts the buffers the queue
\* holds
C1_FillRange ==
  \A q \in QpIds :
    Live(q) =>
      /\ qp[q].send.fill \in 0..qp[q].send.num_wqes
      /\ qp[q].recv.fill \in 0..qp[q].recv.num_wqes
      /\ qp[q].send.fill = Cardinality(HeldBy(iob, q, TRUE))
      /\ qp[q].recv.fill = Cardinality(HeldBy(iob, q, FALSE))

\* one call of the core changes each fill count by the posts it made that
\* succeeded less the completions it delivered; a new queue starts at 0
C1_FillStep ==
  \A q \in QpIds :
    LET posted_s == PostsOk(last'.ev, "op_post_send", q)
        posted_r == PostsOk(last'.ev, "op_post_recv", q)
        done_s == Len(CallsOf(last'.ev, "ib_complete_send", q))
        done_r == Len(CallsOf(last'.ev, "ib_complete_recv", q))
    IN /\ Live(q) /\ qp'[q].st = "live" =>
            /\ qp'[q].send.fill = qp[q].send.fill + posted_s - done_s
            /\ qp'[q].recv.fill = qp[q].recv.fill + posted_r - done_r
       /\ Live(q) /\ qp'[q].st = "freed" =>
            /\ last'.send_fill = qp[q].send.fill - done_s
            /\ last'.recv_fill = qp[q].recv.fill - done_r
       /\ ~Live(q) /\ qp'[q].st = "live" =>
            /\ qp'[q].send.fill = 0
            /\ qp'[q].recv.fill = 0

\* C1: over every sequence of posts and completions on a work queue, fill is
\* the number of posts that succeeded less the number of completions
\* delivered, and it stays between 0 and the capacity: it never wraps below
\* zero and never exceeds num_wqes
C1_FillAccounting == [](C1_FillRange) /\ [][C1_FillStep]_vars

\* a poll delivered a completion on a queue that had been filled to capacity
\* and the queue holds one entry less
C1_Witness ==
  /\ last.op = "ib_poll_cq"
  /\ \E q \in QpIds :
       /\ Live(q)
       /\ Len(CallsOf(last.ev, "ib_complete_send", q)) > 0
       /\ qp[q].send.num_wqes = MaxWqes
       /\ qp[q].send.fill = MaxWqes - 1

\* C2 as stated: a post to a work queue whose fill equals its capacity fails
\* with -ENOBUFS whatever the buffer, calls no hardware post and leaves fill
\* unchanged
C2_FullQueueAlwaysEnobufs ==
  (last.op \in {"ib_post_send", "ib_post_recv"} /\ last.full0) =>
    /\ last.rc = "-ENOBUFS"
    /\ last.ev = <<>>
    /\ last.fill1 = last.fill0

\* C2 as amended: a post to a work queue whose fill equals its capacity calls
\* no hardware post and leaves fill unchanged; it fails with -ENOBUFS, except
\* that ib_post_recv() fails with -EINVAL when the buffer's tailroom is below
\* IB_MAX_PAYLOAD_SIZE, which it checks first
C2_FullQueueRejected ==
  (last.op \in {"ib_post_send", "ib_post_recv"} /\ last.full0) =>
    /\ last.rc = IF last.op = "ib_post_recv" /\ last.small
                 THEN "-EINVAL" ELSE "-ENOBUFS"
    /\ last.ev = <<>>
    /\ last.fill1 = last.fill0

\* a receive queue at capacity refused a buffer of sufficient size
C2_Witness ==
  /\ last.op = "ib_post_recv"
  /\ last.full0
  /\ ~last.small
  /\ last.rc = "-ENOBUFS"
  /\ last.fill0 > 0

\* C3: destroying a queue pair with N outstanding send entries and M
\* outstanding receive entries delivers exactly N send completions and M
\* receive completions, each with -ECANCELED and each for a different
\* outstanding buffer, all of them before the pair is freed
C3_DestroyCancelsOutstanding ==
  last.op = "ib_destroy_qp" =>
    LET sends == CallsOf(last.ev, "ib_complete_send", last.q)
        recvs == CallsOf(last.ev, "ib_complete_recv", last.q)
        freed == IndexOf(last.ev, <<"free", last.q>>)
    IN /\ Len(sends) = Cardinality(last.send0)
       /\ {sends[i][3] : i \in 1..Len(sends)} = last.send0
       /\ Len(recvs) = Cardinality(last.recv0)
       /\ {recvs[i][3] : i \in 1..Len(recvs)} = last.recv0
       /\ \A i \in 1..Len(sends) : sends[i][4] = "-ECANCELED"
       /\ \A i \in 1..Len(recvs) : recvs[i][4] = "-ECANCELED"
       /\ freed = Len(last.ev)
       /\ \A i \in 1..Len(last.ev) :
            last.ev[i][1] \in {"ib_complete_send", "ib_complete_recv"} =>
              /\ last.ev[i][2] = last.q
              /\ i < freed
       /\ last.send0 \cap last.recv0 = {}
       /\ \A b \in last.send0 \cup last.recv0 : iob[b].st # "wq"

\* a queue pair was destroyed with entries outstanding in both directions
C3_Witness ==
  /\ last.op = "ib_destroy_qp"
  /\ last.send0 # {}
  /\ last.recv0 # {}
  /\ Cardinality(last.send0) + Cardinality(last.recv0) = MaxIobs

\* the queue pair numbers a lookup can be asked for
Qpns == 0..MaxQpn

\* no lookup returns a destroyed pair
C4_FreedNotFound ==
  \A q \in QpIds :
    qp[q].st = "freed" => \A n \in Qpns : ib_find_qp_qpn(n) # q

\* a destruction changes no lookup that returned another pair
C4_OthersKept ==
  \A q \in QpIds :
    (Live(q) /\ qp'[q].st = "freed") =>
      \A n \in Qpns :
        ib_find_qp_qpn(n) \notin {q, NULL} =>
          (ib_find_qp_qpn(n))' = ib_find_qp_qpn(n)

\* C4: once ib_destroy_qp() has returned, ib_find_qp_qpn() returns that pair
\* for no number, in every later state, and the lookups that return other
\* live pairs are not changed by the destruction
C4_DestroyedUnreachable == [](C4_FreedNotFound) /\ [][C4_OthersKept]_vars

\* a pair was destroyed while another one stayed live and is still found
C4_Witness ==
  /\ last.op = "ib_destroy_qp"
  /\ \E q \in QpIds :
       /\ Live(q)
       /\ ib_find_qp_qpn(qp[q].qpn) = q
       /\ last.found0 = <<last.q, q>>

\* C5: k calls of ib_open() on a closed device followed by k calls of
\* ib_close() make one hardware open and one hardware close and end with
\* open count 0; an ib_open() of an open device and an ib_close() that leaves
\* the device open change nothing but the open counter and call nothing
C5_OpenCloseBalanced ==
  /\ run.shape = "done" =>
       /\ run.opens = run.closes
       /\ run.hw_opens = 1
       /\ run.hw_closes = 1
       /\ open_count = 0
       /\ ~hw_open
  /\ (last.op = "ib_open" /\ last.count0 > 0) =>
       /\ last.rc = "OK"
       /\ last.ev = <<>>
       /\ open_count = last.count0 + 1
       /\ PortRest(BeginPort) = last.rest0
  /\ (last.op = "ib_close" /\ last.count0 > 1) =>
       /\ last.ev = <<>>
       /\ open_count = last.count0 - 1
       /\ PortRest(BeginPort) = last.rest0

\* the port was opened as often as the bound allows and closed as often
C5_Witness ==
  /\ run.shape = "done"
  /\ run.opens = MaxOpens
  /\ last.op = "ib_close"

\* what a call creates or destroys: a management interface or the agent
PortObject(e) ==
  CASE e[1] = "ib_create_mi" -> <<"mi", e[3]>>
    [] e[1] = "ib_create_sma" -> <<"sma", e[2]>>
    [] e[1] = "ib_destroy_mi" -> <<"mi", e[2]>>
    [] e[1] = "ib_destroy_sma" -> <<"sma", e[2]>>

\* the objects the calls of a list created, in order
CreatedBy(ev) ==
  LET made == SelectSeq(ev, LAMBDA e :
                \/ e[1] = "ib_create_mi" /\ e[3] # NULL
                \/ e[1] = "ib_create_sma" /\ e[3] = "OK")
  IN [i \in 1..Len(made) |-> PortObject(made[i])]

\* the objects the calls of a list destroyed, in order
DestroyedBy(ev) ==
  LET gone == SelectSeq(ev, LAMBDA e :
                e[1] \in {"ib_destroy_mi", "ib_destroy_sma"})
  IN [i \in 1..Len(gone) |-> PortObject(gone[i])]

Reverse(s) == [i \in 1..Len(s) |-> s[Len(s) + 1 - i]]

\* C6: when ib_open() on a closed device fails at one of its four steps, it
\* has destroyed what it created, in reverse order of creation and after the
\* step that failed, it has not called the hardware close, and it leaves the
\* open count at 0 and the port with no interface, no agent and not open
C6_FailedOpenUnwinds ==
  (last.op = "ib_open" /\ last.rc # "OK") =>
    /\ last.count0 = 0
    /\ DestroyedBy(last.ev) = Reverse(CreatedBy(last.ev))
    /\ \A i, j \in 1..Len(last.ev) :
         (/\ last.ev[i][1] \in {"ib_create_mi", "ib_create_sma", "op_open"}
          /\ last.ev[j][1] \in {"ib_destroy_mi", "ib_destroy_sma"}) => i < j
    /\ Count(last.ev, "op_close") = 0
    /\ open_count = 0
    /\ mis = {}
    /\ sma = NULL
    /\ ~hw_open

\* the hardware open, the last of the four steps, failed: two interfaces and
\* the agent had been created
C6_Witness ==
  /\ last.op = "ib_open"
  /\ last.rc # "OK"
  /\ last.fail = "hw"
  /\ Len(CreatedBy(last.ev)) = 3

\* C7: on a queue pair without memberships, a successful ib_mcast_attach()
\* of a group followed by ib_mcast_detach() of it leaves the collection
\* empty, and a second ib_mcast_detach() of the group changes nothing and
\* frees nothing
C7_AttachDetachDetach ==
  /\ \A q \in QpIds :
       (Live(q) /\ mhist[q].phase = 2) => qp[q].mgids = <<>>
  /\ (last.op = "ib_mcast_detach" /\ mhist[last.q].phase = 2) =>
       /\ last.mgids0 = <<mhist[last.q].gid>>
       /\ Count(last.ev, "free_mgid") = 1
  /\ (last.op = "ib_mcast_detach" /\ mhist[last.q].phase = 3) =>
       /\ last.mgids0 = <<>>
       /\ qp[last.q].mgids = <<>>
       /\ Count(last.ev, "free_mgid") = 0

\* a group was attached, detached and detached again
C7_Witness ==
  /\ last.op = "ib_mcast_detach"
  /\ mhist[last.q].phase = 3
  /\ mhist[last.q].gid = last.gid

\* the allocations of a list of calls that returned a buffer
AllocsOk(ev) == Len(SelectSeq(ev, LAMBDA e : e[1] = "alloc_iob" /\ e[2] # NULL))

AllocFailed(ev) == \E i \in 1..Len(ev) : ev[i] = <<"alloc_iob", NULL>>

PostFailed(ev, q) ==
  Len(CallsOf(ev, "op_post_recv", q)) > PostsOk(ev, "op_post_recv", q)

\* C8: ib_refill_recv() on a receive queue of capacity C and fill f posts
\* C - f buffers and ends with fill C when every allocation and every post
\* succeeds; when the allocation fails after j < C - f posts, j buffers have
\* been posted and fill ends at f + j
C8_RefillPosts ==
  last.op = "ib_refill_recv" =>
    LET C == last.num_wqes
        f == last.fill0
        posts == PostsOk(last.ev, "op_post_recv", last.q)
    IN /\ f <= C
       /\ (~AllocFailed(last.ev) /\ ~PostFailed(last.ev, last.q)) =>
            /\ posts = C - f
            /\ last.fill1 = C
       /\ AllocFailed(last.ev) =>
            /\ ~PostFailed(last.ev, last.q)
            /\ posts = AllocsOk(last.ev)
            /\ posts < C - f
            /\ last.fill1 = f + posts
            /\ last.ev[Len(last.ev)] = <<"alloc_iob", NULL>>
       /\ Cardinality(HeldBy(iob, last.q, FALSE)) = last.fill1

\* the allocation failed after one buffer had been posted to an empty queue
\* of the largest capacity
C8_Witness ==
  /\ last.op = "ib_refill_recv"
  /\ last.num_wqes = MaxWqes
  /\ last.fill0 = 0
  /\ AllocFailed(last.ev)
  /\ last.fill1 = 1

\* C9 as stated: whatever the live queue pairs of the device, the lookup of
\* IB_QPN_SMI returns each live pair of the subnet-management type
C9_SmiAlwaysFound ==
  \A q \in QpIds :
    (Live(q) /\ qp[q].type = "IB_QPT_SMI") =>
      ib_find_qp_qpn(IB_QPN_SMI) = q

\* the live pairs that carry a number, as internal or as external number
Carrying(n) == {q \in QpIds : Live(q) /\ (qp[q].qpn = n \/ qp[q].ext_qpn = n)}

\* C9 as amended: a live pair of the subnet-management type has the external
\* number IB_QPN_SMI whatever its hardware number, and the lookup of
\* IB_QPN_SMI returns it when no other live pair carries that number; when
\* several do, it returns the one created last
C9_SmiFoundWhenAlone ==
  \A q \in QpIds :
    (Live(q) /\ qp[q].type = "IB_QPT_SMI") =>
      /\ qp[q].ext_qpn = IB_QPN_SMI
      /\ Carrying(IB_QPN_SMI) = {q} => ib_find_qp_qpn(IB_QPN_SMI) = q
      /\ LET r == ib_find_qp_qpn(IB_QPN_SMI)
         IN /\ r \in Carrying(IB_QPN_SMI)
            /\ \A p \in Carrying(IB_QPN_SMI) :
                 IndexOf(qps, r) <= IndexOf(qps, p)

\* a subnet-management pair whose hardware number is not the reserved one is
\* found by the reserved number behind another pair of the list
C9_Witness ==
  \E q \in QpIds :
    /\ Live(q)
    /\ qp[q].type = "IB_QPT_SMI"
    /\ qp[q].qpn # IB_QPN_SMI
    /\ Len(qps) > 1
    /\ Head(qps) # q
    /\ ib_find_qp_qpn(IB_QPN_SMI) = q

\* C10 as stated: with open count > 0 both management interfaces exist, and
\* with open count 0 none exists and the device refers to none
C10_NoReferenceWhenClosed ==
  /\ open_count > 0 => (smi \in mis /\ gsi \in mis)
  /\ open_count = 0 => (mis = {} /\ smi = NULL /\ gsi = NULL)

\* C10 as amended: with open count > 0 both management interfaces exist and
\* ibdev->smi and ibdev->gsi refer to them; with open count 0 none exists,
\* while ibdev->smi and ibdev->gsi may still hold the addresses of destroyed
\* ones
C10_InterfacesIffOpen ==
  /\ open_count > 0 =>
       /\ smi \in mis
       /\ gsi \in mis
       /\ smi # gsi
       /\ mis = {smi, gsi}
       /\ sma = smi
  /\ open_count = 0 =>
       /\ mis = {}
       /\ sma = NULL
       /\ smi \in MiIds \cup {NULL}
       /\ gsi \in MiIds \cup {NULL}

\* the port was closed by its last holder and both pointers are left behind
C10_Witness ==
  /\ last.op = "ib_close"
  /\ open_count = 0
  /\ mis = {}
  /\ smi # NULL
  /\ gsi # NULL

\* the objects that exist are those on the device's lists: nothing is left
\* half made
NothingPartial ==
  /\ Range(cqs) = {c \in CqIds : LiveCq(c)}
  /\ Range(qps) = {q \in QpIds : Live(q)}
  /\ \A q \in QpIds : ~Live(q) => qp[q].send = NoWq /\ qp[q].recv = NoWq

\* C12: a create call that fails leaves no partial object: ib_create_cq()
\* returns no queue and ibdev->cqs is as before the call; ib_create_qp()
\* returns no pair and ibdev->qps and the work queue lists of the completion
\* queues are as before the call
C12_FailedCreateLeavesNothing ==
  /\ (last.op = "ib_create_cq" /\ last.ret = NULL) =>
       /\ cqs = last.cqs0
       /\ NothingPartial
  /\ (last.op = "ib_create_qp" /\ last.ret = NULL) =>
       /\ qps = last.before.qps
       /\ \A c \in CqIds : cq[c].work_queues = last.before.wqs[c]
       /\ NothingPartial

\* the hardware refused a queue pair on a device that has a queue pair whose
\* work queues are on two completion queues
C12_Witness ==
  /\ last.op = "ib_create_qp"
  /\ last.ret = NULL
  /\ last.ev # <<>>
  /\ \E q \in QpIds :
       /\ Live(q)
       /\ qp[q].send.cq # qp[q].recv.cq

\* the records of a group in a membership collection
RecordsOf(mgids, gid) == Cardinality({i \in 1..Len(mgids) : mgids[i] = gid})

\* C11: after any sequence of ib_mcast_attach() and ib_mcast_detach() calls
\* a queue pair's membership collection holds at most one record per group,
\* and attaching a group that is already attached adds no second record
C11_OneRecordPerGroup ==
  /\ \A q \in QpIds : \A gid \in Gids :
       Live(q) => RecordsOf(qp[q].mgids, gid) <= 1
  /\ (/\ last.op = "ib_mcast_attach"
      /\ last.rc = "OK"
      /\ last.gid \in Range(last.mgids0)) =>
       qp[last.q].mgids = last.mgids0

\* the buffers in the slots of a work queue
InSlots(w) == {w.iobufs[i] : i \in DOMAIN w.iobufs} \ {NULL}

\* between calls every buffer is either unused or owned by one live work
\* queue, which has it in one slot; none is left with a caller of a post
C13_Owned ==
  /\ \A b \in IobIds :
       /\ iob[b].st # "caller"
       /\ iob[b].st = "wq" => Live(iob[b].wq[1])
  /\ \A q \in QpIds :
       Live(q) =>
         /\ InSlots(qp[q].send) = HeldBy(iob, q, TRUE)
         /\ InSlots(qp[q].recv) = HeldBy(iob, q, FALSE)
         /\ Cardinality({i \in DOMAIN qp[q].send.iobufs :
                           qp[q].send.iobufs[i] # NULL}) = qp[q].send.fill
         /\ Cardinality({i \in DOMAIN qp[q].recv.iobufs :
                           qp[q].recv.iobufs[i] # NULL}) = qp[q].recv.fill

\* the completions and the frees of the last call: a completion is of a
\* buffer its work queue owns and is followed at once by one hand-over of
\* it, to the handler or to free_iob(); a hand-over follows its completion;
\* the only other free is of the buffer of a post that has just failed
C13_HandedOverOnce ==
  last.op # "none" =>
  \A i \in 1..Len(last.ev) :
    LET e == last.ev[i] IN
    /\ e[1] \in {"ib_complete_send", "ib_complete_recv"} =>
         /\ e[5].owner.st = "wq"
         /\ e[5].owner.wq = <<e[2], e[1] = "ib_complete_send">>
         /\ i < Len(last.ev)
         /\ \/ last.ev[i + 1] = <<"free_iob", e[3], "wq">>
            \/ last.ev[i + 1] = <<IF e[1] = "ib_complete_send"
                                  THEN "op_complete_send"
                                  ELSE "op_complete_recv", e[2], e[3], e[4]>>
    /\ e[1] \in {"op_complete_send", "op_complete_recv"} =>
         /\ i > 1
         /\ last.ev[i - 1][1] = (IF e[1] = "op_complete_send"
                                 THEN "ib_complete_send" ELSE "ib_complete_recv")
         /\ last.ev[i - 1][3] = e[3]
    /\ e[1] = "free_iob" =>
         /\ e[3] # "none"
         /\ i > 1
         /\ e[3] = "wq" =>
              /\ last.ev[i - 1][1] \in {"ib_complete_send", "ib_complete_recv"}
              /\ last.ev[i - 1][3] = e[2]
         /\ e[3] = "caller" =>
              /\ last.ev[i - 1][1] = "op_post_recv"
              /\ last.ev[i - 1][3] = e[2]
              /\ last.ev[i - 1][4] # "OK"

\* C13: a buffer accepted by a post is owned by its work queue until its
\* completion, which hands it to exactly one party, the handler of the
\* completion queue or free_iob(); a buffer whose post failed is not
\* completed; no buffer is freed twice, freed while a queue owns it, or
\* left without an owner
C13_BufferOwnership == C13_Owned /\ C13_HandedOverOnce

\* a poll handed a received buffer to the handler of the completion queue
\* and the refill posted a new buffer
C13_Witness ==
  /\ last.op = "ib_poll_cq"
  /\ \E i \in 1..Len(last.ev) : last.ev[i][1] = "op_complete_recv"
  /\ \E i \in 1..Len(last.ev) :
       last.ev[i][1] = "op_post_recv" /\ last.ev[i][4] = "OK"

\* C14: ib_close() tears the port down only when its decrement brings the
\* open count to 0, and then destroys the general services interface, the
\* subnet management agent and the subnet management interface and closes
\* the hardware, in that order; any other ib_close() destroys nothing and
\* calls no hardware operation
C14_CloseTearsDownAtZero ==
  last.op = "ib_close" =>
    /\ open_count = last.count0 - 1
    /\ IF open_count = 0
       THEN /\ last.ev = << <<"ib_destroy_mi", last.rest0.gsi>>,
                            <<"ib_destroy_sma", last.rest0.smi>>,
                            <<"ib_destroy_mi", last.rest0.smi>>,
                            <<"op_close">> >>
            /\ last.rest0.gsi # NULL
            /\ last.rest0.smi # NULL
            /\ last.rest0.gsi # last.rest0.smi
            /\ last.rest0.sma = last.rest0.smi
            /\ mis = last.rest0.mis \ {last.rest0.gsi, last.rest0.smi}
            /\ sma = NULL
            /\ ~hw_open
       ELSE /\ last.ev = <<>>
            /\ PortRest(BeginPort) = last.rest0

\* the last of several holders closed the port, after a close that left
\* it open
C14_Witness ==
  /\ last.op = "ib_close"
  /\ open_count = 0
  /\ run.shape = "done"
  /\ run.closes > 1

\* the receive queues on the work queue list of a completion queue, in the
\* order of the list
RecvWqs(c) == SelectSeq(cq[c].work_queues, LAMBDA w : ~w[2])

\* the position of the first refill in a list of calls, or one past its end
FirstRefill(ev) ==
  IF \E i \in 1..Len(ev) : ev[i][1] = "ib_refill_recv"
  THEN Min({i \in 1..Len(ev) : ev[i][1] = "ib_refill_recv"})
  ELSE Len(ev) + 1

\* C16: ib_poll_cq() calls the hardware poll first, with every completion
\* the poll reports, and then ib_refill_recv() once for every receive queue
\* on the list of the completion queue and for no send queue; when every
\* allocation and post succeeds, each of these receive queues is full on
\* return
C16_PollThenRefill ==
  last.op = "ib_poll_cq" =>
    /\ last.ev[1] = <<"op_poll_cq", last.c>>
    /\ \A i \in 2..Len(last.ev) :
         /\ last.ev[i][1] # "op_poll_cq"
         /\ last.ev[i][1] \in {"ib_complete_send", "ib_complete_recv",
                               "op_complete_send", "op_complete_recv"}
              => i < FirstRefill(last.ev)
         /\ last.ev[i][1] \in {"alloc_iob", "op_post_recv"}
              => i > FirstRefill(last.ev)
    /\ SelectSeq(last.ev, LAMBDA e : e[1] = "ib_refill_recv")
         = [i \in 1..Len(RecvWqs(last.c)) |->
              <<"ib_refill_recv", RecvWqs(last.c)[i][1]>>]
    /\ (/\ ~AllocFailed(last.ev)
        /\ \A q \in QpIds : ~PostFailed(last.ev, q))
         => \A i \in 1..Len(RecvWqs(last.c)) :
              LET w == qp[RecvWqs(last.c)[i][1]].recv
              IN w.fill = w.num_wqes

\* a poll of a completion queue with the send and the receive queues of
\* two pairs reported a completion and then refilled both receive queues
C16_Witness ==
  /\ last.op = "ib_poll_cq"
  /\ Len(RecvWqs(last.c)) = 2
  /\ \E q \in QpIds : <<q, TRUE>> \in Range(cq[last.c].work_queues)
  /\ \E i \in 1..Len(last.ev) : last.ev[i][1] = "ib_complete_recv"
  /\ \E i \in 1..Len(last.ev) :
       last.ev[i][1] = "op_post_recv" /\ last.ev[i][4] = "OK"
  /\ Len(SelectSeq(last.ev, LAMBDA e : e[1] = "ib_refill_recv")) = 2

\* the calls of op on x in a list of calls
Times(ev, op, x) == Cardinality({i \in 1..Len(ev) : ev[i] = <<op, x>>})

\* C17: one ib_step() calls ib_poll_eq() once for every registered device
\* (register_ibdev() succeeded, unregister_ibdev() not called since) and for
\* no other; each ib_poll_eq() polls the event queue of the hardware first
\* and then every completion queue of its device once, and no other
C17_StepPollsRegistered ==
  /\ Range(ib_devices) = registered
  /\ Len(ib_devices) = Cardinality(registered)
  /\ last.op = "ib_step" =>
       /\ \A d \in DevIds :
            Times(last.ev, "op_poll_eq", d) = IF d \in registered THEN 1 ELSE 0
       /\ \A c \in CqIds :
            Times(last.ev, "op_poll_cq", c)
              = IF LiveCq(c) /\ cq[c].ibdev \in registered THEN 1 ELSE 0
       /\ \A i \in 1..Len(last.ev) :
            last.ev[i][1] = "op_poll_cq" =>
              \E j \in 1..(i - 1) :
                /\ last.ev[j] = <<"op_poll_eq", cq[last.ev[i][2]].ibdev>>
                /\ \A k \in (j + 1)..(i - 1) : last.ev[k][1] # "op_poll_eq"

\* a step while one device with a completion queue is registered and
\* another device with a completion queue is not
C17_Witness ==
  /\ last.op = "ib_step"
  /\ \E c \in CqIds : LiveCq(c) /\ cq[c].ibdev \in registered
  /\ \E c \in CqIds : LiveCq(c) /\ cq[c].ibdev \notin registered
  /\ \E d \in DevIds : d \notin registered /\ refcnt[d] = 0

\* C18: ib_destroy_qp() destroys the hardware queue pair first, then
\* delivers the cancelled completions of the send queue and then those of
\* the receive queue, and only then unlinks the two work queues from their
\* completion queues, unlinks the pair from the device and frees it; at
\* every cancelled completion the pair is still found by its number and
\* its work queues are on the lists of their completion queues
C18_DestroyOrder ==
  last.op = "ib_destroy_qp" =>
    LET ev == last.ev
        n == Len(last.ev)
    IN /\ n >= 5
       /\ ev[1] = <<"op_destroy_qp", last.q>>
       /\ SubSeq(ev, n - 3, n) = << <<"list_del_send", last.q>>,
                                    <<"list_del_recv", last.q>>,
                                    <<"list_del_qp", last.q>>,
                                    <<"free", last.q>> >>
       /\ \A i \in 2..(n - 4) :
            ev[i][1] \in {"ib_complete_send", "ib_complete_recv",
                          "op_complete_send", "op_complete_recv", "free_iob"}
       /\ \A i, j \in 1..n :
            (ev[i][1] = "ib_complete_send" /\ ev[j][1] = "ib_complete_recv")
              => i < j
       /\ \A i \in 1..n :
            ev[i][1] \in {"ib_complete_send", "ib_complete_recv"} =>
              /\ ev[i][2] = last.q
              /\ ev[i][4] = "-ECANCELED"
              /\ ev[i][5].linked
              /\ ev[i][5].found
       /\ {ev[i][3] : i \in {k \in 1..n : ev[k][1] = "ib_complete_send"}}
            = last.send0
       /\ {ev[i][3] : i \in {k \in 1..n : ev[k][1] = "ib_complete_recv"}}
            = last.recv0
       /\ last.q \notin Range(qps)
       /\ \A c \in CqIds : \A is_send \in BOOLEAN :
            <<last.q, is_send>> \notin Range(cq[c].work_queues)

\* a pair was destroyed with buffers outstanding in both of its queues
C18_Witness ==
  /\ last.op = "ib_destroy_qp"
  /\ last.send0 # {}
  /\ last.recv0 # {}

\* C19: an ib_mcast_attach() that fails, for want of memory or because the
\* hardware refuses, returns the failure and leaves the membership list of
\* the pair as it was, so that ib_find_qp_mgid() finds for the group what it
\* found before; one that succeeds adds one record of the group
C19_FailedAttachUnwinds ==
  last.op = "ib_mcast_attach" =>
    IF last.rc # "OK"
    THEN /\ \/ last.ev = <<>> /\ last.rc = "-ENOMEM"
            \/ last.ev = << <<"op_mcast_attach", last.q, last.gid, last.rc>>,
                            <<"free_mgid", last.gid>> >>
         /\ qp[last.q].mgids = last.mgids0
         /\ ib_find_qp_mgid(last.gid) = last.found0
    ELSE /\ last.ev = << <<"op_mcast_attach", last.q, last.gid, "OK">> >>
         /\ Len(qp[last.q].mgids) = Len(last.mgids0) + 1
         /\ RecordsOf(qp[last.q].mgids, last.gid)
              = RecordsOf(last.mgids0, last.gid) + 1
         /\ \A g \in Gids \ {last.gid} :
              RecordsOf(qp[last.q].mgids, g) = RecordsOf(last.mgids0, g)
         /\ ib_find_qp_mgid(last.gid) # NULL

\* the hardware refused to attach a group to a pair that has a membership,
\* and no pair had the group
C19_Witness ==
  /\ last.op = "ib_mcast_attach"
  /\ last.rc # "OK"
  /\ last.ev # <<>>
  /\ last.mgids0 # <<>>
  /\ last.found0 = NULL

\* the hardware opens and closes in a list of calls
HwCalls(ev) == SelectSeq(ev, LAMBDA e : e[1] \in {"op_open", "op_close"})

\* the open count is the number of callers that hold the port open, and
\* the hardware is open exactly when it is not 0
C20_Counted ==
  /\ open_count = holders
  /\ open_count >= 0
  /\ hw_open <=> open_count > 0

\* C20 as stated: while no caller closes more often than it has opened,
\* the calls of op->open and op->close alternate, op->open first; the open
\* count is the successful opens less the closes and does not wrap; the
\* hardware is open exactly when the count is above 0
C20_HwCallsAlternate ==
  /\ C20_Counted
  /\ last.op \in {"ib_open", "ib_close"} =>
       LET H == HwCalls(last.ev) IN
       /\ Len(H) <= 1
       /\ \A i \in 1..Len(H) :
            IF H[i][1] = "op_open"
            THEN last.hw_prev0 \in {"none", "close"}
            ELSE last.hw_prev0 = "open"

\* C20 as amended: the op->open calls that succeed and the op->close calls
\* alternate, a successful op->open first; an op->open that fails is
\* followed by no op->close and may be followed by another op->open; the
\* open count is the successful opens less the closes and does not wrap;
\* the hardware is open exactly when the count is above 0
C20_HwOpenCloseAlternate ==
  /\ C20_Counted
  /\ last.op \in {"ib_open", "ib_close"} =>
       LET H == HwCalls(last.ev) IN
       /\ Len(H) <= 1
       /\ \A i \in 1..Len(H) :
            IF H[i][1] = "op_open"
            THEN /\ ~last.rest0.hw_open
                 /\ last.hw_prev0 = "open" => last.count0 = 0
                 /\ hw_open <=> H[i][2] = "OK"
            ELSE /\ last.rest0.hw_open
                 /\ last.hw_prev0 = "open"
                 /\ ~hw_open

\* the hardware is opened after an op->open that failed, with no op->close
\* between the two
C20_Witness ==
  /\ last.op = "ib_open"
  /\ last.hw_prev0 = "open"
  /\ ~last.rest0.hw_open
  /\ last.rc = "OK"
  /\ hw_open

\* the passes of the refill loop that ended in a return: the allocation
\* failed or the post failed
RefillFails(ev, q) ==
  Cardinality({i \in 1..Len(ev) : ev[i] = <<"alloc_iob", NULL>>})
    + (Len(CallsOf(ev, "op_post_recv", q)) - PostsOk(ev, "op_post_recv", q))

\* the passes of the refill loop so far
RefillPasses(ev) == Cardinality({i \in 1..Len(ev) : ev[i][1] = "alloc_iob"})

\* an ib_refill_recv() from fill f of capacity C has made at most C - f
\* passes that post, each of which raised the fill by one, and at most one
\* pass that failed, after which it has returned
C21_Bounded ==
  last.op = "ib_refill_recv" =>
    LET posts == PostsOk(last.ev, "op_post_recv", last.q)
        fails == RefillFails(last.ev, last.q)
    IN /\ RefillPasses(last.ev) = posts + fails
       /\ qp[last.q].recv.fill = last.fill0 + posts
       /\ last.fill0 <= last.num_wqes
       /\ posts <= last.num_wqes - last.fill0
       /\ fails <= 1
       /\ fails = 1 => last.pc = "return"
       /\ last.pc = "return" =>
            fails = 1 \/ qp[last.q].recv.fill = last.num_wqes

\* a pass of the loop either raises the receive fill by one and goes on or
\* leaves the fill alone and returns
C21_Pass ==
  Refilling =>
    \/ /\ qp'[last.q].recv.fill = qp[last.q].recv.fill + 1
       /\ last'.pc = "while"
    \/ /\ qp'[last.q].recv.fill = qp[last.q].recv.fill
       /\ last'.pc = "return"

\* C21: ib_refill_recv() terminates whatever the capacity, the fill it
\* starts from and the outcomes of the allocations and posts: every pass of
\* its loop raises the receive fill by one or returns, so that it makes at
\* most capacity - fill passes that post and at most one that fails
C21_RefillTerminates ==
  /\ [](C21_Bounded)
  /\ [][C21_Pass]_vars
  /\ (Refilling ~> ~Refilling)

\* a refill of a queue of the largest capacity posted a buffer and
\* returned when the next post failed
C21_Witness ==
  /\ last.op = "ib_refill_recv"
  /\ last.pc = "return"
  /\ last.num_wqes = MaxWqes
  /\ PostsOk(last.ev, "op_post_recv", last.q) > 0
  /\ PostFailed(last.ev, last.q)

\* how often a work queue is on the list of a completion queue
OnList(c, w) ==
  Cardinality({i \in 1..Len(cq[c].work_queues) : cq[c].work_queues[i] = w})

\* the live pairs created with completion queue c for both work queues
SamePairs(c) ==
  {q \in QpIds : Live(q) /\ qp[q].send.cq = c /\ qp[q].recv.cq = c}

\* the list of the shared completion queue holds the send queue and the
\* receive queue of the pair, each once
C22_TwoMembers ==
  \A c \in CqIds : \A q \in SamePairs(c) :
    OnList(c, <<q, TRUE>>) = 1 /\ OnList(c, <<q, FALSE>>) = 1

\* ib_find_wq() with the internal number of the pair returns its send
\* queue when is_send is set and its receive queue when it is not
C22_FoundByDirection ==
  last.op = "ib_find_wq" =>
    \A q \in SamePairs(last.c) :
      qp[q].qpn = last.qpn =>
        /\ last.ret # <<>>
        /\ last.ret = IF last.is_send # 0 THEN <<q, TRUE>> ELSE <<q, FALSE>>

\* one ib_poll_cq() of the shared completion queue refills the pair once
C22_RefilledOnce ==
  last.op = "ib_poll_cq" =>
    \A q \in SamePairs(last.c) : Times(last.ev, "ib_refill_recv", q) = 1

\* ib_destroy_qp() takes both work queues off the list, which is empty, as
\* ib_destroy_cq() asserts, once no pair is left on the completion queue
C22_BothRemoved ==
  /\ last.op = "ib_destroy_qp" =>
       \A c \in CqIds :
         OnList(c, <<last.q, TRUE>>) = 0 /\ OnList(c, <<last.q, FALSE>>) = 0
  /\ \A c \in CqIds :
       (LiveCq(c) /\ SamePairs(c) = {}) => list_empty(cq[c].work_queues)

WqsOf(c) ==
  {<<q, TRUE>> : q \in {x \in QpIds : Live(x) /\ qp[x].send.cq = c}}
    \cup {<<q, FALSE>> : q \in {x \in QpIds : Live(x) /\ qp[x].recv.cq = c}}

\* C15: the work queue list of a completion queue holds exactly the send
\* queues of the live pairs created with it as send queue and the receive
\* queues of those created with it as receive queue, each once; so it is
\* empty, as ib_destroy_cq() asserts, exactly when no live pair names the
\* completion queue
C15_WorkQueuesOfCq ==
  \A c \in CqIds :
    /\ Range(cq[c].work_queues) = WqsOf(c)
    /\ Len(cq[c].work_queues) = Cardinality(WqsOf(c))
    /\ WqsOf(c) # {} => LiveCq(c)
    /\ list_empty(cq[c].work_queues) <=>
         ~\E q \in QpIds : Live(q) /\ c \in {qp[q].send.cq, qp[q].recv.cq}

\* a completion queue was destroyed after the pairs that named it, while a
\* pair on another completion queue lives on
C15_Witness ==
  /\ last.op = "ib_destroy_cq"
  /\ \E q \in QpIds : qp[q].st = "freed"
  /\ \E q \in QpIds : Live(q)

====
